---- MODULE Spec2Model ----
(***************************************************************************)
(* A model of the addr2line terminal link provider (src/extension.ts):     *)
(* the Addr2Line process wrapper, the target watcher set up by             *)
(* monitorTarget, and the provideTerminalLinks / handleTerminalLink pair.  *)
(*                                                                         *)
(* Strings are sequences of one-character strings, so that trim, split,    *)
(* parseInt and the regular expression are computed character by           *)
(* character.  The node event loop is modelled by one action per callback: *)
(* a callback runs to completion, and the promise reactions it triggers    *)
(* (then / catch) run in the same step, as microtasks do.                  *)
(***************************************************************************)
EXTENDS Naturals, Sequences, FiniteSets

VARIABLES
  activated,      \* activate() has run
  folders,        \* vscode.workspace.workspaceFolders, cut after its first folder:
                  \* <<>> or <<f>> (the code reads its length and its first folder)
  exists,         \* the target file exists in the first workspace folder (FALSE
                  \* without a folder); the other folders are not observed
  targetWatcher,  \* the targetWatcher variable: 0 (undefined) or the folder it watches
  watchers,       \* watchers[f]: number of watchers of folder f's target not disposed
  process,        \* Addr2Line.process: 0 (null) or a process
  pstate,         \* pstate[p]: "free" (no such process: not spawned, or closed),
                  \* "running", "killed" or "exited" (dead, 'close' not emitted yet)
  ptarget,        \* ptarget[p]: the folder whose target p was spawned for
  stdin,          \* stdin[p]: the addresses p has read, whose answer has not been
                  \* emitted as 'data' yet
  outputs,        \* outputs[a]: the text the resolver binary prints for address a
  nreqs,          \* number of clicks handled so far
  rstate,         \* rstate[r]: promise of click r: "unused", "pending", "resolved", "rejected"
  rproc,          \* rproc[r]: the process the listeners of r are attached to (0: none)
  rtimer,         \* rtimer[r]: "none", "armed", "fired"
  rout,           \* rout[r]: the data r resolved with
  rerr,           \* rerr[r]: the error r was rejected with
  nsuccess,       \* nsuccess[r]: runs of the then-callback of click r
  nerror,         \* nerror[r]: error messages shown for click r
  pick,           \* pick[r]: the quick pick shown for click r: its items, and the
                  \* realPaths and lines arrays its callback closes over
  pickOpen,       \* pickOpen[r]: the quick pick of click r awaits the user
  chosen,         \* chosen[r]: the index the user selected in the quick pick (0: none)
  opened,         \* opened[r]: the (path, line) pairs opened for click r
  lastEvent,      \* history: what the last run of monitorTarget or of a watcher
                  \* callback did: "none" (monitorTarget), "start", "stop"
  lastSpawn,      \* history: the process a watcher callback spawned, if that was
                  \* the last run (0 otherwise)
  line,           \* the terminal line handed to provideTerminalLinks
  links,          \* the links returned for it
  scanned         \* provideTerminalLinks has run on line

vars == <<activated, folders, exists, targetWatcher, watchers,
          process, pstate, ptarget, stdin, outputs,
          nreqs, rstate, rproc, rtimer, rout, rerr, nsuccess, nerror,
          pick, pickOpen, chosen, opened, lastEvent, lastSpawn,
          line, links, scanned>>

fsVars    == <<folders, exists>>
watchVars == <<targetWatcher, watchers>>
procVars  == <<process, pstate, ptarget, stdin>>
settleVars == <<rstate, rout, rerr, nsuccess, nerror, pick, pickOpen, opened>>
reqVars   == <<nreqs, rproc, rtimer, chosen, settleVars>>
histVars  == <<lastEvent, lastSpawn>>
scanVars  == <<line, links, scanned>>

(***************************************************************************)
(* Bounds of the model.                                                    *)
(***************************************************************************)
MaxProcs    == 2   \* processes that are spawned and not yet closed, at one time
MaxReqs     == 2   \* clicks in one behaviour
NumFolders  == 2   \* distinct workspace folders
MaxLines    == 2   \* lines of one resolver output
MaxChunks   == 4   \* chunks of one terminal line

Procs    == 1..MaxProcs
Reqs     == 1..MaxReqs
Folders  == 1..NumFolders
\* The k-th click is on the k-th address.
Addrs    == Reqs

\* The workspace folder lists, cut after the first folder.
FolderLists == {<<>>} \cup {<<f>> : f \in Folders}

Max(S) == CHOOSE x \in S : \A y \in S : y <= x
Min(S) == CHOOSE x \in S : \A y \in S : x <= y

(***************************************************************************)
(* Strings.                                                                *)
(***************************************************************************)
IsSpace(c) == c \in {" ", "\n", "\t", "\r"}

Digits == <<"0", "1", "2", "3", "4", "5", "6", "7", "8", "9">>
IsDigit(c) == \E d \in 1..10 : Digits[d] = c
DigitVal(c) == (CHOOSE d \in 1..10 : Digits[d] = c) - 1

\* String.prototype.trim
RECURSIVE TrimStart(_)
TrimStart(s) ==
  IF s # <<>> /\ IsSpace(Head(s)) THEN TrimStart(Tail(s)) ELSE s
RECURSIVE TrimEnd(_)
TrimEnd(s) ==
  IF s # <<>> /\ IsSpace(s[Len(s)]) THEN TrimEnd(SubSeq(s, 1, Len(s) - 1)) ELSE s
Trim(s) == TrimEnd(TrimStart(s))

\* String.prototype.split with a one-character separator
RECURSIVE Split(_, _)
Split(s, sep) ==
  IF \A i \in 1..Len(s) : s[i] # sep
  THEN <<s>>
  ELSE LET i == CHOOSE k \in 1..Len(s) : s[k] = sep /\ \A j \in 1..(k - 1) : s[j] # sep
       IN  <<SubSeq(s, 1, i - 1)>> \o Split(SubSeq(s, i + 1, Len(s)), sep)

\* The value undefined, where a string is expected: it converts to "undefined".
Undefined == <<"undefined">>

\* parseInt(s, 10): the leading digits of s after leading white space; NaN when
\* there are none.  NaN is modelled by <<>>, the integer n by <<n>>.
NaN == <<>>
RECURSIVE LeadingDigits(_)
LeadingDigits(s) ==
  IF s # <<>> /\ IsDigit(Head(s)) THEN <<Head(s)>> \o LeadingDigits(Tail(s)) ELSE <<>>
RECURSIVE DecimalValue(_)
DecimalValue(ds) ==
  IF ds = <<>> THEN 0 ELSE 10 * DecimalValue(SubSeq(ds, 1, Len(ds) - 1)) + DigitVal(ds[Len(ds)])
ParseInt(s) ==
  LET ds == LeadingDigits(TrimStart(s))
  IN  IF ds = <<>> THEN NaN ELSE <<DecimalValue(ds)>>

(***************************************************************************)
(* Paths (node's path module, for absolute normalized directories and      *)
(* file names without "." and ".." segments).                              *)
(***************************************************************************)
RECURSIVE Join(_, _)
Join(parts, sep) ==
  IF parts = <<>> THEN <<>>
  ELSE IF Len(parts) = 1 THEN parts[1]
  ELSE parts[1] \o <<sep>> \o Join(Tail(parts), sep)

Segments(path) == IF path = <<"/">> THEN <<>> ELSE Split(Tail(path), "/")

\* path.resolve(from, file)
Resolve(from, file) ==
  IF file = <<>> THEN from
  ELSE IF file[1] = "/" THEN file
  ELSE IF from = <<"/">> THEN from \o file
  ELSE from \o <<"/">> \o file

\* path.relative(from, to)
Relative(from, to) ==
  LET fs == Segments(from)
      ts == Segments(to)
      Common(k) == k <= Len(fs) /\ k <= Len(ts) /\ \A j \in 1..k : fs[j] = ts[j]
      n  == CHOOSE k \in 0..Len(fs) : Common(k) /\ ~Common(k + 1)
  IN  Join([i \in 1..(Len(fs) - n) |-> <<".", ".">>] \o SubSeq(ts, n + 1, Len(ts)), "/")

\* workspaceFolders[0].uri.path
FolderPath(f) == <<"/", "w", Digits[f + 1]>>

(***************************************************************************)
(* handleTerminalLink: the then-callback on the resolver's output.         *)
(***************************************************************************)
\* relativeTo
RelativeTo(fl) == IF fl # <<>> THEN FolderPath(fl[1]) ELSE <<"/">>

\* outputLines
OutputLines(output) == Split(Trim(output), "\n")

\* let [file, lineStr] = outputLine.trim().split(":")
FileOf(outputLine) == Split(Trim(outputLine), ":")[1]
LineStrOf(outputLine) ==
  LET parts == Split(Trim(outputLine), ":")
  IN  IF Len(parts) >= 2 THEN parts[2] ELSE Undefined

\* line = parseInt(lineStr, 10), 1 when that is NaN
LineOf(outputLine) ==
  LET n == ParseInt(LineStrOf(outputLine))
  IN  IF n = NaN THEN 1 ELSE n[1]

\* The arrays the loop fills: realPaths, lines, quickPickItems.  An item is an
\* object: ref is its identity, the position at which it was created.
RealPaths(output, relativeTo) ==
  LET ols == OutputLines(output)
  IN  [i \in 1..Len(ols) |-> Resolve(relativeTo, FileOf(ols[i]))]

Lines(output) ==
  LET ols == OutputLines(output)
  IN  [i \in 1..Len(ols) |-> LineOf(ols[i])]

QuickPickItems(output, relativeTo) ==
  LET ols == OutputLines(output)
  IN  [i \in 1..Len(ols) |->
         [ref         |-> i,
          label       |-> Relative(relativeTo, Resolve(relativeTo, FileOf(ols[i]))),
          description |-> LineStrOf(ols[i])]]

\* A search by label instead of by identity, which items with equal labels
\* tell apart.
IndexOfLabel(items, selected) ==
  IF \E i \in 1..Len(items) : items[i].label = selected.label
  THEN CHOOSE i \in 1..Len(items) :
         /\ items[i].label = selected.label
         /\ \A j \in 1..(i - 1) : items[j].label # selected.label
  ELSE 0

\* quickPickItems.indexOf(selected): the first position holding that object
\* (0 when there is none)
IndexOf(items, selected) ==
  IF \E i \in 1..Len(items) : items[i] = selected
  THEN CHOOSE i \in 1..Len(items) :
         items[i] = selected /\ \A j \in 1..(i - 1) : items[j] # selected
  ELSE 0

\* openFileLine(file, line)
OpenFileLine(seq, file, ln) == Append(seq, [path |-> file, line |-> ln])

(***************************************************************************)
(* provideTerminalLinks: the regular expression                            *)
(*   /[^+\ :]+\+0x[0-9a-f]+\/0x[0-9a-f]+/g                                 *)
(* matched as a backtracking engine matches it: the leftmost start, and    *)
(* for each quantifier the longest run with which the rest matches.        *)
(***************************************************************************)
\* [^+\ ]  (the class of an earlier version of the expression)
SymCharNoColon(c) == c \notin {"+", " "}
\* [^+\ :]
SymChar(c) == c \notin {"+", " ", ":"}
\* [0-9a-f]
HexChar(c) == IsDigit(c) \/ c \in {"a", "b", "c", "d", "e", "f"}

\* The literal lit is at position i of s.
LitAt(s, i, lit) ==
  /\ i + Len(lit) - 1 <= Len(s)
  /\ \A k \in 1..Len(lit) : s[i + k - 1] = lit[k]

\* The positions after a non-empty run of symbol / hex characters from i.
SymRunEnds(s, i) == {j \in (i + 1)..(Len(s) + 1) : \A k \in i..(j - 1) : SymChar(s[k])}
HexRunEnds(s, i) == {j \in (i + 1)..(Len(s) + 1) : \A k \in i..(j - 1) : HexChar(s[k])}

\* [0-9a-f]+ at i, last in the expression: the position after it (0: no match)
SizeAt(s, i) == IF HexRunEnds(s, i) = {} THEN 0 ELSE Max(HexRunEnds(s, i))

\* [0-9a-f]+\/0x[0-9a-f]+ at i
OffsetAt(s, i) ==
  LET ok == {j \in HexRunEnds(s, i) : LitAt(s, j, <<"/", "0", "x">>) /\ SizeAt(s, j + 3) # 0}
  IN  IF ok = {} THEN 0 ELSE SizeAt(s, Max(ok) + 3)

\* the whole expression at i
MatchAt(s, i) ==
  LET ok == {j \in SymRunEnds(s, i) : LitAt(s, j, <<"+", "0", "x">>) /\ OffsetAt(s, j + 3) # 0}
  IN  IF ok = {} THEN 0 ELSE OffsetAt(s, Max(ok) + 3)

\* The links.push of the loop, for the match of s from position i up to e.
Link(s, i, e) ==
  [startIndex |-> i - 1, length |-> e - i, link |-> SubSeq(s, i, e - 1)]

\* line.matchAll(regex), from lastIndex on (positions count from 1 here,
\* match.index from 0)
RECURSIVE MatchAll(_, _)
MatchAll(s, lastIndex) ==
  LET starts == {i \in lastIndex..Len(s) : MatchAt(s, i) # 0}
  IN  IF starts = {} THEN <<>>
      ELSE LET i == Min(starts)
               e == MatchAt(s, i)
           IN  <<Link(s, i, e)>> \o MatchAll(s, e)

(***************************************************************************)
(* The texts of the resolver: lines "file:line" joined by newlines.        *)
(***************************************************************************)
OutputLineSet ==
  { <<"a", ".", "c", ":", "7">>,
    <<"a", ".", "c", ":", "1", "2">>,
    <<"/", "x", "/", "b", ".", "c", ":", "7">>,
    <<"a", ".", "c", ":", "7", " ", "(", "d", ")">>,
    <<"?", "?", ":", "0">>,
    <<"?", "?", ":", "?">>,
    <<"a", ".", "c">>,
    <<>> }

RECURSIVE LineSeqs(_)
LineSeqs(n) ==
  IF n = 0 THEN {<<>>}
  ELSE LineSeqs(n - 1) \cup
       {Append(ls, l) : ls \in {x \in LineSeqs(n - 1) : Len(x) = n - 1}, l \in OutputLineSet}

\* The text of the lines ls, each ended by a newline.
Text(ls) == Join(ls, "\n") \o <<"\n">>

AllOutputs == {Text(ls) : ls \in LineSeqs(MaxLines) \ {<<>>}}

\* One line for an odd address, two lines (inlined code) for an even one.
MainOutputs ==
  [a \in Addrs |->
     IF a % 2 = 1
     THEN Text(<< <<"a", ".", "c", ":", "7">> >>)
     ELSE Text(<< <<"a", ".", "c", ":", "7">>, <<"a", ".", "c", ":", "1", "2">> >>)]

(***************************************************************************)
(* The terminal lines scanned: up to MaxChunks chunks.                     *)
(***************************************************************************)
ChunkSet ==
  { <<"1", "+", "0", "x", "1", "/", "0", "x", "2">>,
    <<"g">>, <<"1">>, <<"+", "0", "x", "1">>, <<"/", "0", "x", "2">>,
    <<" ">>, <<":">>, <<"+">> }

RECURSIVE ChunkLines(_)
ChunkLines(n) ==
  IF n = 0 THEN {<<>>}
  ELSE ChunkLines(n - 1) \cup {l \o c : l \in ChunkLines(n - 1), c \in ChunkSet}

(***************************************************************************)
(* The Addr2Line wrapper.  A process is one of MaxProcs process objects;   *)
(* an object is in use from its spawn to its 'close' event.                *)
(***************************************************************************)
\* process.kill(9): a running process dies, its close event is then pending;
\* a process that has already exited is left as it is.
Kill(ps, p) == IF p # 0 /\ ps[p] = "running" THEN [ps EXCEPT ![p] = "killed"] ELSE ps

\* The process object cp.spawn returns: the first one not in use.
Spawned == Min({p \in Procs : pstate[p] = "free"})

\* start(target)
Start(f) ==
  /\ \E p \in Procs : pstate[p] = "free"
  /\ pstate' = [Kill(pstate, process) EXCEPT ![Spawned] = "running"]
  /\ ptarget' = [ptarget EXCEPT ![Spawned] = f]
  /\ process' = Spawned
  /\ UNCHANGED stdin

\* stop()
Stop ==
  /\ pstate' = Kill(pstate, process)
  /\ process' = 0
  /\ UNCHANGED <<ptarget, stdin>>

(***************************************************************************)
(* Promises.  resolve and reject settle a promise that is pending and do   *)
(* nothing otherwise; the then / catch reaction runs once, when it settles.*)
(***************************************************************************)
\* A promise that could be settled again: what settle-once rules out.
SettlesAlways(r) == rstate[r] # "unused"
\* resolve / reject have an effect on a pending promise only.
Settles(r) == rstate[r] = "pending"

\* reject(new Error(e)) called for every request of the set L, then the
\* catch-callback of those it settles: showErrorMessage.
RejectAll(L, e) ==
  LET S == {r \in L : Settles(r)}
  IN  /\ rstate' = [r \in Reqs |-> IF r \in S THEN "rejected" ELSE rstate[r]]
      /\ rerr'   = [r \in Reqs |-> IF r \in S THEN e ELSE rerr[r]]
      /\ nerror' = [r \in Reqs |-> IF r \in S THEN nerror[r] + 1 ELSE nerror[r]]
      /\ UNCHANGED <<rout, nsuccess, pick, pickOpen, opened>>

\* resolve(data.toString()) called for every request of the set L, then the
\* then-callback of those it settles.
ResolveAll(L, d) ==
  LET S     == {r \in L : Settles(r)}
      rel   == RelativeTo(folders)
      items == QuickPickItems(d.text, rel)
  IN  /\ rstate'   = [r \in Reqs |-> IF r \in S THEN "resolved" ELSE rstate[r]]
      /\ rout'     = [r \in Reqs |-> IF r \in S THEN d ELSE rout[r]]
      /\ nsuccess' = [r \in Reqs |-> IF r \in S THEN nsuccess[r] + 1 ELSE nsuccess[r]]
      /\ pick'     = [r \in Reqs |->
                        IF r \in S /\ Len(items) > 1
                        THEN [items     |-> items,
                              realPaths |-> RealPaths(d.text, rel),
                              lines     |-> Lines(d.text)]
                        ELSE pick[r]]
      /\ pickOpen' = [r \in Reqs |-> IF r \in S /\ Len(items) > 1 THEN TRUE ELSE pickOpen[r]]
      /\ opened'   = [r \in Reqs |->
                        IF r \in S /\ Len(items) = 1
                        THEN OpenFileLine(opened[r], RealPaths(d.text, rel)[1], Lines(d.text)[1])
                        ELSE opened[r]]
      /\ UNCHANGED <<rerr, nerror>>

\* Listeners attached to whatever process emits: what attaching them to the
\* process object of the call rules out.
ListenersOfAny(p) == {r \in Reqs : rproc[r] # 0}

\* The requests whose data, error and close listeners are attached to process p.
Listeners(p) == {r \in Reqs : rproc[r] = p}

(***************************************************************************)
(* handleTerminalLink -> resolveAddress                                    *)
(***************************************************************************)
\* The executor of the promise, when this.process is null.
ResolveNotRunning(r) ==
  /\ rstate' = [rstate EXCEPT ![r] = "rejected"]
  /\ rerr'   = [rerr EXCEPT ![r] = "notrunning"]
  /\ nerror' = [nerror EXCEPT ![r] = nerror[r] + 1]
  /\ UNCHANGED <<rproc, rtimer, stdin>>

\* The executor of the promise, when this.process is set: arm the timer,
\* attach the listeners, write the address (a dead process does not read it).
ResolveRunning(r) ==
  /\ rstate' = [rstate EXCEPT ![r] = "pending"]
  /\ rtimer' = [rtimer EXCEPT ![r] = "armed"]
  /\ rproc'  = [rproc EXCEPT ![r] = process]
  /\ stdin'  = IF pstate[process] = "running"
                THEN [stdin EXCEPT ![process] = Append(stdin[process], r)]
                ELSE stdin
  /\ UNCHANGED <<rerr, nerror>>

\* A click on a link: handleTerminalLink.
Click ==
  /\ activated
  /\ nreqs < MaxReqs
  /\ nreqs' = nreqs + 1
  /\ IF process = 0 THEN ResolveNotRunning(nreqs + 1) ELSE ResolveRunning(nreqs + 1)
  /\ UNCHANGED <<rout, nsuccess, pick, pickOpen, chosen, opened>>
  /\ UNCHANGED <<activated, fsVars, watchVars, process, pstate, ptarget, outputs, histVars, scanVars>>

\* A timer callback that does not reject: what the callback is there for.
OnTimeoutNoReject(r) ==
  /\ rtimer' = [rtimer EXCEPT ![r] = "fired"]
  /\ UNCHANGED settleVars

\* The setTimeout callback of request r.
OnTimeout(r) ==
  /\ rtimer' = [rtimer EXCEPT ![r] = "fired"]
  /\ RejectAll({r}, "timeout")

Timeout(r) ==
  /\ rtimer[r] = "armed"
  /\ OnTimeout(r)
  /\ UNCHANGED <<nreqs, rproc, chosen>>
  /\ UNCHANGED <<activated, fsVars, watchVars, procVars, outputs, histVars, scanVars>>

\* The user selects item i of the quick pick of request r.
PickSelect(r, i) ==
  /\ pickOpen[r]
  /\ i \in 1..Len(pick[r].items)
  /\ LET selected      == pick[r].items[i]
         selectedIndex == IndexOf(pick[r].items, selected)
     IN  opened' = [opened EXCEPT ![r] =
                      OpenFileLine(opened[r], pick[r].realPaths[selectedIndex],
                                   pick[r].lines[selectedIndex])]
  /\ pickOpen' = [pickOpen EXCEPT ![r] = FALSE]
  /\ chosen' = [chosen EXCEPT ![r] = i]
  /\ UNCHANGED <<nreqs, rproc, rtimer, rstate, rout, rerr, nsuccess, nerror, pick>>
  /\ UNCHANGED <<activated, fsVars, watchVars, procVars, outputs, histVars, scanVars>>

\* The user dismisses the quick pick of request r: selected is undefined.
PickDismiss(r) ==
  /\ pickOpen[r]
  /\ pickOpen' = [pickOpen EXCEPT ![r] = FALSE]
  /\ UNCHANGED <<nreqs, rproc, rtimer, chosen, rstate, rout, rerr, nsuccess, nerror, pick, opened>>
  /\ UNCHANGED <<activated, fsVars, watchVars, procVars, outputs, histVars, scanVars>>

(***************************************************************************)
(* Events of the resolver processes.                                       *)
(***************************************************************************)
\* stdout 'data' of p: the answer to the oldest address it has read.  What a
\* process wrote before it died is still emitted, up to its 'close'.
ProcData(p) ==
  /\ pstate[p] # "free"
  /\ stdin[p] # <<>>
  /\ ResolveAll(Listeners(p), [addr |-> Head(stdin[p]), text |-> outputs[Head(stdin[p])]])
  /\ stdin' = [stdin EXCEPT ![p] = Tail(stdin[p])]
  /\ UNCHANGED <<nreqs, rproc, rtimer, chosen>>
  /\ UNCHANGED <<activated, fsVars, watchVars, process, pstate, ptarget, outputs, histVars, scanVars>>

\* p exits by itself.
ProcExit(p) ==
  /\ pstate[p] = "running"
  /\ pstate' = [pstate EXCEPT ![p] = "exited"]
  /\ UNCHANGED <<process, ptarget, stdin, reqVars>>
  /\ UNCHANGED <<activated, fsVars, watchVars, outputs, histVars, scanVars>>

\* p fails with requests listening: 'error' is emitted, 'close' follows.
ProcError(p) ==
  /\ pstate[p] = "running"
  /\ \E r \in Listeners(p) : Settles(r)
  /\ pstate' = [pstate EXCEPT ![p] = "exited"]
  /\ RejectAll(Listeners(p), "errored")
  /\ UNCHANGED <<nreqs, rproc, rtimer, chosen, stdin>>
  /\ UNCHANGED <<activated, fsVars, watchVars, process, ptarget, outputs, histVars, scanVars>>

\* 'close' of p: the listener start() attached, then those of the requests.
\* Nothing more is emitted by p: its listeners are gone with it.
OnClose(p) == process' = 0

ProcClose(p) ==
  /\ pstate[p] \in {"killed", "exited"}
  /\ pstate' = [pstate EXCEPT ![p] = "free"]
  /\ ptarget' = [ptarget EXCEPT ![p] = 0]
  /\ OnClose(p)
  /\ RejectAll(Listeners(p), "exited")
  /\ rproc' = [r \in Reqs |-> IF rproc[r] = p THEN 0 ELSE rproc[r]]
  /\ stdin' = [stdin EXCEPT ![p] = <<>>]
  /\ UNCHANGED <<nreqs, rtimer, chosen>>
  /\ UNCHANGED <<activated, fsVars, watchVars, outputs, histVars, scanVars>>

(***************************************************************************)
(* activate and monitorTarget.                                             *)
(***************************************************************************)
\* A monitorTarget that leaves the previous watcher in place: what the
\* dispose is there for.
DisposeNothing(ws) == ws

\* targetWatcher.dispose(); targetWatcher = undefined
Dispose(ws) ==
  IF targetWatcher # 0 THEN [ws EXCEPT ![targetWatcher] = ws[targetWatcher] - 1] ELSE ws

\* monitorTarget(), with the workspace folders fl, where ex tells whether
\* the target exists in the first of them
MonitorTarget(fl, ex) ==
  IF fl # <<>>
  THEN /\ IF ex THEN Start(fl[1]) ELSE UNCHANGED procVars
       /\ watchers' = [Dispose(watchers) EXCEPT ![fl[1]] = Dispose(watchers)[fl[1]] + 1]
       /\ targetWatcher' = fl[1]
  ELSE /\ UNCHANGED procVars
       /\ watchers' = Dispose(watchers)
       /\ targetWatcher' = 0

Activate ==
  /\ ~activated
  /\ activated' = TRUE
  /\ MonitorTarget(folders, exists)
  /\ lastEvent' = "none"
  /\ lastSpawn' = 0
  /\ UNCHANGED <<fsVars, outputs, reqVars, scanVars>>

\* onDidChangeWorkspaceFolders: folders were added or removed, and fl is the
\* new list (cut after its first folder, which may be the same as before).
WorkspaceFoldersChange(fl) ==
  /\ activated
  /\ fl # <<>> \/ folders # <<>>
  /\ folders' = fl
  /\ exists' \in (IF fl = folders THEN {exists} ELSE IF fl = <<>> THEN {FALSE} ELSE BOOLEAN)
  /\ MonitorTarget(fl, exists')
  /\ lastEvent' = "none"
  /\ lastSpawn' = 0
  /\ UNCHANGED <<activated, outputs, reqVars, scanVars>>

\* The target of folder f is modified: onDidChange of its watcher.
TargetChange(f) ==
  /\ activated
  /\ watchers[f] > 0
  /\ folders = <<f>> => exists
  /\ Start(f)
  /\ lastEvent' = "start"
  /\ lastSpawn' = Spawned
  /\ UNCHANGED <<activated, fsVars, watchVars, outputs, reqVars, scanVars>>

\* The target of folder f is created: onDidCreate of its watcher.
TargetCreate(f) ==
  /\ activated
  /\ watchers[f] > 0
  /\ folders = <<f>> => ~exists
  /\ exists' = IF folders = <<f>> THEN TRUE ELSE exists
  /\ Start(f)
  /\ lastEvent' = "start"
  /\ lastSpawn' = Spawned
  /\ UNCHANGED <<activated, folders, watchVars, outputs, reqVars, scanVars>>

\* The target of folder f is deleted: onDidDelete of its watcher.
TargetDelete(f) ==
  /\ activated
  /\ watchers[f] > 0
  /\ folders = <<f>> => exists
  /\ exists' = IF folders = <<f>> THEN FALSE ELSE exists
  /\ Stop
  /\ lastEvent' = "stop"
  /\ lastSpawn' = 0
  /\ UNCHANGED <<activated, folders, watchVars, outputs, reqVars, scanVars>>

ProvideTerminalLinks ==
  /\ ~scanned
  /\ links' = MatchAll(line, 1)
  /\ scanned' = TRUE
  /\ UNCHANGED <<line, activated, fsVars, watchVars, procVars, outputs, reqVars, histVars>>

(***************************************************************************)
(* Initial states.                                                         *)
(***************************************************************************)
NoOut  == [addr |-> 0, text |-> <<>>]
NoPick == [items |-> <<>>, realPaths |-> <<>>, lines |-> <<>>]

NoRequests ==
  /\ nreqs = 0
  /\ rstate = [r \in Reqs |-> "unused"]
  /\ rproc = [r \in Reqs |-> 0]
  /\ rtimer = [r \in Reqs |-> "none"]
  /\ rout = [r \in Reqs |-> NoOut]
  /\ rerr = [r \in Reqs |-> "none"]
  /\ nsuccess = [r \in Reqs |-> 0]
  /\ nerror = [r \in Reqs |-> 0]
  /\ pick = [r \in Reqs |-> NoPick]
  /\ pickOpen = [r \in Reqs |-> FALSE]
  /\ chosen = [r \in Reqs |-> 0]
  /\ opened = [r \in Reqs |-> <<>>]

NoProcesses ==
  /\ process = 0
  /\ pstate = [p \in Procs |-> "free"]
  /\ ptarget = [p \in Procs |-> 0]
  /\ stdin = [p \in Procs |-> <<>>]

NoScan ==
  /\ line = <<>>
  /\ links = <<>>
  /\ scanned = FALSE

\* new Addr2Line(), before activate() has run monitorTarget.
Init ==
  /\ activated = FALSE
  /\ folders \in FolderLists
  /\ exists \in (IF folders = <<>> THEN {FALSE} ELSE BOOLEAN)
  /\ targetWatcher = 0
  /\ watchers = [f \in Folders |-> 0]
  /\ NoProcesses
  /\ outputs = MainOutputs
  /\ NoRequests
  /\ lastEvent = "none"
  /\ lastSpawn = 0
  /\ NoScan

Next ==
  \/ Activate
  \/ \E fl \in FolderLists : WorkspaceFoldersChange(fl)
  \/ \E f \in Folders : TargetChange(f)
  \/ \E f \in Folders : TargetCreate(f)
  \/ \E f \in Folders : TargetDelete(f)
  \/ Click
  \/ \E r \in Reqs : Timeout(r)
  \/ \E p \in Procs : ProcData(p)
  \/ \E p \in Procs : ProcExit(p)
  \/ \E p \in Procs : ProcError(p)
  \/ \E p \in Procs : ProcClose(p)

Spec == Init /\ [][Next]_vars

\* The timers of the event loop fire.
LiveSpec == Spec /\ \A r \in Reqs : WF_vars(Timeout(r))

(***************************************************************************)
(* provideTerminalLinks on each line of the bounded set.                   *)
(***************************************************************************)
ScanInit ==
  /\ activated = FALSE
  /\ folders = <<>>
  /\ exists = FALSE
  /\ targetWatcher = 0
  /\ watchers = [f \in Folders |-> 0]
  /\ NoProcesses
  /\ outputs = MainOutputs
  /\ NoRequests
  /\ lastEvent = "none"
  /\ lastSpawn = 0
  /\ line \in ChunkLines(MaxChunks)
  /\ links = <<>>
  /\ scanned = FALSE

ScanNext == ProvideTerminalLinks

ScanSpec == ScanInit /\ [][ScanNext]_vars

(***************************************************************************)
(* The consumption of each output of the bounded set: one request pending  *)
(* on a process that monitorTarget started for folder f, under each list   *)
(* of workspace folders (the process of a folder outlives a change of the  *)
(* folders), and a resolver that prints that output.                       *)
(***************************************************************************)
ResultInit ==
  /\ activated = TRUE
  /\ folders \in FolderLists
  /\ exists = (folders # <<>>)
  /\ targetWatcher = (IF folders # <<>> THEN folders[1] ELSE 0)
  /\ watchers = [f \in Folders |-> IF folders = <<f>> THEN 1 ELSE 0]
  /\ process = 1
  /\ pstate = [p \in Procs |-> IF p = 1 THEN "running" ELSE "free"]
  /\ \E f \in Folders :
       /\ folders # <<>> => f = folders[1]
       /\ ptarget = [p \in Procs |-> IF p = 1 THEN f ELSE 0]
  /\ stdin = [p \in Procs |-> IF p = 1 THEN <<1>> ELSE <<>>]
  /\ \E t \in AllOutputs : outputs = [a \in Addrs |-> t]
  /\ nreqs = 1
  /\ rstate = [r \in Reqs |-> IF r = 1 THEN "pending" ELSE "unused"]
  /\ rproc = [r \in Reqs |-> IF r = 1 THEN 1 ELSE 0]
  /\ rtimer = [r \in Reqs |-> IF r = 1 THEN "armed" ELSE "none"]
  /\ rout = [r \in Reqs |-> NoOut]
  /\ rerr = [r \in Reqs |-> "none"]
  /\ nsuccess = [r \in Reqs |-> 0]
  /\ nerror = [r \in Reqs |-> 0]
  /\ pick = [r \in Reqs |-> NoPick]
  /\ pickOpen = [r \in Reqs |-> FALSE]
  /\ chosen = [r \in Reqs |-> 0]
  /\ opened = [r \in Reqs |-> <<>>]
  /\ lastEvent = "none"
  /\ lastSpawn = 0
  /\ NoScan

ResultNext ==
  \/ \E p \in Procs : ProcData(p)
  \/ \E r \in Reqs, i \in 1..MaxLines : PickSelect(r, i)
  \/ \E r \in Reqs : PickDismiss(r)

ResultSpec == ResultInit /\ [][ResultNext]_vars

(***************************************************************************)
(* The claims.                                                             *)
(***************************************************************************)
Running == {p \in Procs : pstate[p] = "running"}
ClosePending == {p \in Procs : pstate[p] \in {"killed", "exited"}}
Settled(r) == rstate[r] \in {"resolved", "rejected"}

\* C1: at most one resolver process is alive at a time: the number of
\* processes that were spawned and have neither been killed nor exited never
\* exceeds one.
C1_AtMostOneAlive == Cardinality(Running) <= 1

\* C2: queries are serialized: no two requests whose address was written to
\* the same process are unsettled at the same time.
C2_OneInFlight ==
  \A r1 \in Reqs, r2 \in Reqs :
    (r1 # r2 /\ rstate[r1] = "pending" /\ rstate[r2] = "pending" /\ rproc[r1] # 0)
      => rproc[r1] # rproc[r2]

\* C3: after a change or create event of the watched target (and nothing
\* later), once every pending 'close' event has been delivered and while the
\* process that event spawned is running, the wrapper holds that process, so
\* that resolveAddress does not take its 'not running' branch.
C3_RestartHolds ==
  (/\ lastEvent = "start"
   /\ lastSpawn # 0
   /\ ClosePending = {}
   /\ pstate[lastSpawn] = "running")
    => process = lastSpawn

\* C4: every request is gated by its timeout: a pending request has its timer
\* armed, once the timer has fired the request is settled, and (the timers of
\* the event loop firing) a pending request is eventually settled.
C4_TimeoutGate ==
  /\ [](\A r \in Reqs : rstate[r] = "pending" => rtimer[r] = "armed")
  /\ [](\A r \in Reqs : rtimer[r] = "fired" => Settled(r))
  /\ \A r \in Reqs : (rstate[r] = "pending") ~> Settled(r)

\* A request that got no answer was rejected by its timer.
C4_Witness ==
  \E r \in Reqs : rstate[r] = "rejected" /\ rerr[r] = "timeout" /\ rtimer[r] = "fired"

\* The number of lines of an output, and the paths its file may resolve to.
NumLines(text) == Cardinality({k \in 1..Len(Trim(text)) : Trim(text)[k] = "\n"}) + 1
PathsOf(outputLine) == {Resolve(RelativeTo(fl), FileOf(outputLine)) : fl \in FolderLists}

\* C5: a resolved request opens a file or presents a choice.  With one line
\* of output (after trimming) that line's file is opened at its line, and no
\* quick pick is shown.  With more lines a quick pick is shown, with one
\* item per line in the order of the output; nothing is opened while it is
\* open or when it is dismissed, and selecting item i opens the path and the
\* line of output line i.
C5_OpenOrChoose ==
  \A r \in Reqs :
    rstate[r] = "resolved" =>
      LET text == rout[r].text
          n    == NumLines(text)
          ols  == OutputLines(text)
      IN  /\ n = 1 =>
               /\ pick[r] = NoPick /\ ~pickOpen[r]
               /\ Len(opened[r]) = 1
               /\ opened[r][1].line = LineOf(ols[1])
               /\ opened[r][1].path \in PathsOf(ols[1])
          /\ n > 1 =>
               /\ Len(pick[r].items) = n
               /\ \A i \in 1..n :
                    /\ pick[r].items[i].description = LineStrOf(ols[i])
                    /\ pick[r].lines[i] = LineOf(ols[i])
                    /\ pick[r].realPaths[i] \in PathsOf(ols[i])
               /\ pickOpen[r] => opened[r] = <<>>
               /\ (~pickOpen[r] /\ chosen[r] = 0) => opened[r] = <<>>
               /\ chosen[r] # 0 =>
                    opened[r] = << [path |-> pick[r].realPaths[chosen[r]],
                                    line |-> pick[r].lines[chosen[r]]] >>

\* The second item of a quick pick was selected, and a file opened.
C5_Witness ==
  \E r \in Reqs : chosen[r] = 2 /\ Len(opened[r]) = 1 /\ Len(pick[r].items) > 1

\* An address, as the text describes it: a symbol, "+0x" and an offset,
\* "/0x" and a size.
AddrSymbolChar(c) == c # "+" /\ c # " " /\ c # ":"
AddrHexChar(c) ==
  c \in {"0", "1", "2", "3", "4", "5", "6", "7", "8", "9", "a", "b", "c", "d", "e", "f"}
IsAddress(t) ==
  /\ \E k \in 1..Len(t) : t[k] = "+"
  /\ LET a == Min({k \in 1..Len(t) : t[k] = "+"})
     IN  /\ a > 1
         /\ \A k \in 1..(a - 1) : AddrSymbolChar(t[k])
         /\ a + 2 <= Len(t) /\ t[a + 1] = "0" /\ t[a + 2] = "x"
         /\ \E k \in (a + 3)..Len(t) : t[k] = "/"
         /\ LET b == Min({k \in (a + 3)..Len(t) : t[k] = "/"})
            IN  /\ b > a + 3
                /\ \A k \in (a + 3)..(b - 1) : AddrHexChar(t[k])
                /\ b + 3 <= Len(t) /\ t[b + 1] = "0" /\ t[b + 2] = "x"
                /\ \A k \in (b + 3)..Len(t) : AddrHexChar(t[k])

\* C6: a scan of a line yields links that each cover an address (a symbol
\* without '+', space and ':', then "+0x" and hex digits, then "/0x" and hex
\* digits) and carry the text of the line at [startIndex, startIndex +
\* length); the links are in increasing order and do not overlap; and every
\* address in the line overlaps a link, so a line yields no link exactly
\* when it holds no address.
C6_LinksCoverAddresses ==
  scanned =>
    /\ \A k \in 1..Len(links) :
         /\ links[k].length > 0
         /\ links[k].startIndex + links[k].length <= Len(line)
         /\ links[k].link =
              SubSeq(line, links[k].startIndex + 1, links[k].startIndex + links[k].length)
         /\ IsAddress(links[k].link)
    /\ \A k \in 1..(Len(links) - 1) :
         links[k].startIndex + links[k].length <= links[k + 1].startIndex
    /\ \A i \in 1..Len(line) : \A j \in i..Len(line) :
         IsAddress(SubSeq(line, i, j)) =>
           \E k \in 1..Len(links) :
             /\ links[k].startIndex + 1 <= j
             /\ i <= links[k].startIndex + links[k].length

\* A line with two addresses was scanned, and a line with a ':' before one.
C6_Witness ==
  /\ scanned
  /\ Len(links) = 2
  /\ \E k \in 1..Len(line) : line[k] = ":"

\* C7: after a delete event of the watched target the resolver is stopped: no
\* process is running and the handle is null, so that resolveAddress takes
\* its 'not running' branch, until the target is created or changed again.
C7_DeleteStops ==
  lastEvent = "stop" => (process = 0 /\ Running = {})

\* C8: the handle and the live process agree: the handle is set exactly when
\* a process is spawned, not killed and not closed, and it is then that
\* process.
C8_HandleAgrees ==
  LET Live == {p \in Procs : pstate[p] \in {"running", "exited"}}
  IN  /\ process # 0 <=> Live # {}
      /\ process # 0 => Live = {process}

\* C9: a request receives its own answer: the data a request resolved with
\* is the resolver's answer to the address this request wrote.
C9_OwnAnswer ==
  \A r \in Reqs : rstate[r] = "resolved" => rout[r].addr = r

\* C10: each click has exactly one outcome once its promise is settled, and
\* none before: the then-callback ran once (one file opened, or one quick
\* pick shown) and no error message was shown, or one error message was
\* shown and the then-callback never ran.
C10_OneOutcome ==
  \A r \in Reqs :
    /\ ~Settled(r) => (nsuccess[r] = 0 /\ nerror[r] = 0)
    /\ rstate[r] = "resolved" => (nsuccess[r] = 1 /\ nerror[r] = 0)
    /\ rstate[r] = "rejected" => (nsuccess[r] = 0 /\ nerror[r] = 1)
    /\ nsuccess[r] = 1 =>
         \/ Len(opened[r]) = 1 /\ pick[r] = NoPick
         \/ opened[r] = <<>> /\ pick[r] # NoPick
    /\ nerror[r] = 1 => (opened[r] = <<>> /\ pick[r] = NoPick)

\* A request resolved by data, whose timer fired and whose process closed
\* afterwards: every listener of the request has run.
C10_Witness ==
  \E r \in Reqs : rstate[r] = "resolved" /\ rtimer[r] = "fired" /\ rproc[r] = 0

\* C11: a request that is pending has its listeners on a process that has not
\* closed; when that process (killed by a restart or by stop, or exited)
\* closes, the request is rejected with the 'exited' error; and when the
\* request is resolved, it is with output that the process it wrote to
\* emitted, never with output of another (the replacement) process.
C11_RejectedOnClose ==
  [][\A r \in Reqs :
       rstate[r] = "pending" =>
         /\ rproc[r] # 0
         /\ pstate[rproc[r]] # "free"
         /\ pstate'[rproc[r]] = "free" =>
              (rstate'[r] = "rejected" /\ rerr'[r] = "exited")
         /\ rstate'[r] = "resolved" =>
              /\ stdin[rproc[r]] # <<>>
              /\ stdin'[rproc[r]] = Tail(stdin[rproc[r]])
              /\ rout'[r].addr = Head(stdin[rproc[r]])]_vars

\* A request was rejected with 'exited' and the process that a restart
\* spawned is running.
C11_Witness ==
  /\ \E r \in Reqs : rstate[r] = "rejected" /\ rerr[r] = "exited"
  /\ lastEvent = "start" /\ lastSpawn # 0 /\ pstate[lastSpawn] = "running"

\* C12: a running resolver process was started for the target of the current
\* first workspace folder: there is such a folder, and it is the folder the
\* process was started for.
C12_RunningForFirstFolder ==
  \A p \in Running : folders # <<>> /\ ptarget[p] = folders[1]

\* C13: at most one target watcher is active at a time, it is the one the
\* targetWatcher variable holds, and it watches the target of the first
\* workspace folder; a target event that ran start or stop came through that
\* watcher, and the process it spawned is one for the target of the current
\* first folder.
C13_OneWatcher ==
  /\ \A f \in Folders : watchers[f] <= 1
  /\ \A f \in Folders, g \in Folders : (watchers[f] > 0 /\ watchers[g] > 0) => f = g
  /\ \A f \in Folders :
       watchers[f] > 0 => (folders # <<>> /\ folders[1] = f /\ targetWatcher = f)
  /\ lastEvent # "none" => (folders # <<>> /\ watchers[folders[1]] = 1)
  /\ (lastEvent = "start" /\ lastSpawn # 0 /\ pstate[lastSpawn] # "free")
       => (folders # <<>> /\ ptarget[lastSpawn] = folders[1])

\* After a change of the first folder (a process started for the previous one
\* has not closed yet), a target event came through the only watcher, which
\* is the one of the new first folder.
C13_Witness ==
  \E f \in Folders, g \in Folders :
    /\ f # g
    /\ folders = <<f>>
    /\ watchers[f] = 1 /\ watchers[g] = 0
    /\ lastEvent \in {"start", "stop"}
    /\ \E p \in Procs : ptarget[p] = g /\ pstate[p] # "free"

====
